---- MODULE Spec2Model ----
(***************************************************************************)
(* Model of lambda/create_index/index.py: the custom-resource handler that *)
(* waits for an OpenSearch domain, creates the bedrock_kb_role role, maps  *)
(* IAM roles to all_access and bedrock_kb_role, and creates the vector     *)
(* index.  One behaviour is one invocation of handler(event, context).     *)
(* Strings the code slices (DomainEndpoint) are sequences of characters;   *)
(* every other string is an opaque TLA+ string.                            *)
(***************************************************************************)
EXTENDS Integers, Sequences, FiniteSets, TLC

VARIABLES
    event,        \* the event passed to handler (read only)
    pc,           \* position of handler: start, poll, role, all_access, kb_only, index, done
    base_url,     \* local base_url (line 63); <<>> until computed
    i,            \* loop variable of the readiness loop (line 78)
    status_code,  \* local status_code, None until a call has returned
    response,     \* local response, None until a call has returned
    result,       \* how the invocation ended: none / returned / raised
    trace,        \* outbound network calls and time.sleep calls, in order
    lastOutcome,  \* what urlopen did with the last request sent (the network's answer)
    readyAt,      \* position in trace of the health call that took the break (0: none)
    transportFailed, \* some request so far got no HTTP response at all
    allRed,       \* every health attempt so far returned a response with status red
    indexExists,  \* the cluster holds the index (an index PUT was answered 200 or 201)
    invocation    \* 1 in the first invocation of handler, 2 in a re-invocation

vars == <<event, pc, base_url, i, status_code, response, result, trace,
          lastOutcome, readyAt, transportFailed, allRed, indexExists, invocation>>

(* ------------------------------ bounds -------------------------------- *)

\* Longest run of scheme prefixes put in front of the host of DomainEndpoint.
MaxPrefixes == 2

(* ----------------------------- constants ------------------------------ *)

None == "None"

HttpsScheme == <<"h", "t", "t", "p", "s", ":", "/", "/">>
HttpScheme == <<"h", "t", "t", "p", ":", "/", "/">>
Host == <<"e", "s">>

\* Line 77. (max_retries_off_by_one: the budget one too large.)
max_retries_off_by_one == 30 + 1
max_retries == 30

\* Lines 87, 92 and 193: the arguments of time.sleep.
\* (PollSleepMinute: a minute between attempts.  PropagationSleepAsPoll: the
\* poll interval used for the propagation delay.)
PollSleepMinute == 6 * 10
PollSleep == 10
PropagationSleepAsPoll == PollSleep
PropagationSleep == 30

RequiredKeys == <<"DomainEndpoint", "IndexName", "Region", "KbRoleArn">>
RequiredKeySet == {RequiredKeys[k] : k \in 1..Len(RequiredKeys)}

HealthPath == <<"/_cluster/health">>
RolePath == <<"/_plugins/_security/api/roles/bedrock_kb_role">>
\* (AllAccessPathSwapped: the all_access mapping sent to the other mapping's URL.)
AllAccessPathSwapped == <<"/_plugins/_security/api/rolesmapping/bedrock_kb_role">>
AllAccessPath == <<"/_plugins/_security/api/rolesmapping/all_access">>
KbOnlyPath == <<"/_plugins/_security/api/rolesmapping/bedrock_kb_role">>
IndexPath(index_name) == <<"/", index_name>>

\* The static documents the code serialises with json.dumps.
bedrock_kb_role == "bedrock_kb_role document"
index_config == "index_config document"

WrapPrefix == "Failed to create index: "

(* ------------------------------ inputs -------------------------------- *)

RECURSIVE PrefixRuns(_)
PrefixRuns(n) ==
    IF n = 0 THEN {<<>>}
    ELSE LET shorter == PrefixRuns(n - 1)
         IN  shorter \cup {p \o s : p \in {HttpsScheme, HttpScheme}, s \in shorter}

\* DomainEndpoint values: a host with 0..MaxPrefixes scheme prefixes in front.
Endpoints == {p \o Host : p \in PrefixRuns(MaxPrefixes)}

IndexNames == {"kb-index"}
KbArns == {"arn:aws:iam::1:role/kb"}
AdminArns == {None, "", "arn:aws:iam::1:role/kb", "arn:aws:iam::1:role/admin"}
RequestTypes == {None, "Create", "Update", "Delete"}

\* The events handler is invoked with.  ResourceProperties may be absent, and
\* so may each required key, under every RequestType.  No statement of the code
\* reads both the endpoint and the role or request type, so the endpoint is
\* varied under one admin role and request type, and the admin role and the
\* request type are varied under one endpoint.
PlainEndpoint == HttpsScheme \o Host

Events ==
    {ev \in [hasProps : BOOLEAN,
             keys : SUBSET RequiredKeySet,
             DomainEndpoint : Endpoints,
             IndexName : IndexNames,
             KbRoleArn : KbArns,
             AdminRoleArn : AdminArns,
             RequestType : RequestTypes] :
        \/ ev.DomainEndpoint = PlainEndpoint
        \/ (ev.AdminRoleArn = None /\ ev.RequestType = "Create")}

\* What urllib.request.urlopen can do with one request.
HealthBodies ==
    {"{\"status\":\"green\"}", "{\"status\":\"yellow\"}", "{\"status\":\"red\"}",
     "{}", "<html>"}
PutBodies == {"{\"acknowledged\":true}", "resource_already_exists_exception"}

PutOutcomes ==
    [kind : {"ok"}, code : {200, 201}, body : PutBodies]
        \cup [kind : {"httperror"}, code : {400}, body : PutBodies]
        \cup {[kind |-> "urlerror", code |-> 0, body |-> ""]}

\* The cluster's answers to PUT /<IndexName>: any answer while the index does
\* not exist; once it exists the PUT is refused with 400
\* resource_already_exists_exception (or the transport fails).
IndexOutcomes(exists) ==
    IF exists
    THEN {o \in PutOutcomes :
             \/ o.kind = "urlerror"
             \/ (o.code = 400 /\ o.body = "resource_already_exists_exception")}
    ELSE PutOutcomes

NoOutcome == [kind |-> "none", code |-> 0, body |-> ""]

HealthOutcomes ==
    [kind : {"ok"}, code : {200}, body : HealthBodies]
        \cup [kind : {"httperror"}, code : {503}, body : HealthBodies]
        \cup {[kind |-> "urlerror", code |-> 0, body |-> ""]}

(* -------------------------- pure functions ---------------------------- *)

Range(s) == {s[k] : k \in 1..Len(s)}

\* Python truth value of an optional string: None and '' are false.
Truthy(x) == x \notin {None, ""}

\* str.startswith
StartsWith(s, p) == Len(s) >= Len(p) /\ SubSeq(s, 1, Len(p)) = p

\* s[n:]
Drop(s, n) == SubSeq(s, n + 1, Len(s))

StripHttps(d) == IF StartsWith(d, HttpsScheme) THEN Drop(d, 8) ELSE d
StripHttp(d) == IF StartsWith(d, HttpScheme) THEN Drop(d, 7) ELSE d

\* Lines 58-61: the two independent ifs, https:// first, then http://.
CleanEndpoint(d) == StripHttp(StripHttps(d))

BaseUrl(d) == HttpsScheme \o CleanEndpoint(d)

\* Lines 49-53: the first subscript that raises KeyError, None when none does.
\* (FirstMissingNoKb: KbRoleArn read with .get, as AdminRoleArn is.)
FirstMissingNoKb(ev) ==
    IF ~ev.hasProps THEN "ResourceProperties"
    ELSE LET missing == {k \in 1..(Len(RequiredKeys) - 1) : RequiredKeys[k] \notin ev.keys}
         IN  IF missing = {} THEN None
             ELSE RequiredKeys[CHOOSE k \in missing : \A m \in missing : k <= m]
FirstMissing(ev) ==
    IF ~ev.hasProps THEN "ResourceProperties"
    ELSE LET missing == {k \in 1..Len(RequiredKeys) : RequiredKeys[k] \notin ev.keys}
         IN  IF missing = {} THEN None
             ELSE RequiredKeys[CHOOSE k \in missing : \A m \in missing : k <= m]

\* Line 55: event.get('RequestType', 'Create')
RequestTypeOf(ev) == IF ev.RequestType = None THEN "Create" ELSE ev.RequestType

\* Line 65. (IsDeleteLower: the comparison with the wrong case.)
IsDeleteLower(request_type) == request_type = "delete"
IsDelete(request_type) == request_type = "Delete"

\* Lines 39-43: urlopen's result as make_signed_request hands it on: a
\* response (2xx, or the HTTPError's code and body) is returned, any other
\* failure of the transport is raised.
\* (make_signed_request_uncaught: without the except clause of line 42.)
make_signed_request_uncaught(outcome) ==
    IF outcome.kind = "ok"
    THEN [raised |-> FALSE, status_code |-> outcome.code, response |-> outcome.body]
    ELSE [raised |-> TRUE, status_code |-> None, response |-> None]
make_signed_request(outcome) ==
    IF outcome.kind = "urlerror"
    THEN [raised |-> TRUE, status_code |-> None, response |-> None]
    ELSE [raised |-> FALSE, status_code |-> outcome.code, response |-> outcome.body]

\* json.loads followed by .get('status') on the bodies the model sends.
JsonLoads(text) ==
    CASE text = "{\"status\":\"green\"}" -> [ok |-> TRUE, status |-> "green"]
      [] text = "{\"status\":\"yellow\"}" -> [ok |-> TRUE, status |-> "yellow"]
      [] text = "{\"status\":\"red\"}" -> [ok |-> TRUE, status |-> "red"]
      [] text = "{}" -> [ok |-> TRUE, status |-> None]
      [] OTHER -> [ok |-> FALSE, status |-> None]

\* Line 82 raises (json.JSONDecodeError) inside the try of the loop.
ParseRaises(code, text) == code = 200 /\ ~JsonLoads(text).ok

\* Lines 81-85: the condition under which the loop breaks.
\* (ClusterReadyAnyStatus: "red" accepted as ready too.)
ClusterReadyAnyStatus(code, text) ==
    code = 200 /\ JsonLoads(text).ok /\ JsonLoads(text).status \in {"green", "yellow", "red"}
ClusterReady(code, text) ==
    code = 200 /\ JsonLoads(text).ok /\ JsonLoads(text).status \in {"green", "yellow"}

\* Lines 144-146. (BackendRolesAlways: the admin role appended unconditionally.)
BackendRolesAlways(kb_role_arn, admin_role_arn) == <<kb_role_arn, admin_role_arn>>
BackendRoles(kb_role_arn, admin_role_arn) ==
    LET backend_roles == <<kb_role_arn>>
    IN  IF Truthy(admin_role_arn) /\ admin_role_arn \notin Range(backend_roles)
        THEN Append(backend_roles, admin_role_arn)
        ELSE backend_roles

RoleMapping(roles) == [backend_roles |-> roles, hosts |-> <<>>, users |-> <<>>]

\* Lines 170-174. (KbOnlyMappingShared: the list of the all_access mapping reused.)
KbOnlyMappingShared(kb_role_arn, backend_roles) == RoleMapping(backend_roles)
KbOnlyMapping(kb_role_arn, backend_roles) == RoleMapping(<<kb_role_arn>>)

\* Line 238. (IndexCreatedOnly200: 201 Created not accepted.)
\* (IndexCreatedOrExists: 400, the answer for an index that exists, accepted.)
IndexCreatedOnly200(code) == code \in {200}
IndexCreatedOrExists(code) == code \in {200, 201, 400}
IndexCreated(code) == code \in {200, 201}

(* ------------------------------ results ------------------------------- *)

NoResult == [kind |-> "none", statusCode |-> 0, body |-> "", msg |-> <<>>]

\* Lines 68-71 and 241-244
Returned(text) == [kind |-> "returned", statusCode |-> 200, body |-> text, msg |-> <<>>]

\* Lines 246-248: every exception leaves handler wrapped.
\* (RaisedBare: the exception re-raised as it is, without the context.)
RaisedBare(inner) == [kind |-> "raised", statusCode |-> 0, body |-> "", msg |-> inner]
Raised(inner) == [kind |-> "raised", statusCode |-> 0, body |-> "", msg |-> <<WrapPrefix>> \o inner]

Call(method, path, payload) ==
    [kind |-> "call", method |-> method, url |-> [base |-> base_url, path |-> path],
     payload |-> payload, secs |-> 0]

Sleep(secs) ==
    [kind |-> "sleep", method |-> "", url |-> [base |-> <<>>, path |-> <<>>],
     payload |-> "", secs |-> secs]

(* ------------------------------ handler ------------------------------- *)

Init ==
    /\ event \in Events
    /\ pc = "start"
    /\ base_url = <<>>
    /\ i = 0
    /\ status_code = None
    /\ response = None
    /\ result = NoResult
    /\ trace = <<>>
    /\ lastOutcome = NoOutcome
    /\ readyAt = 0
    /\ transportFailed = FALSE
    /\ allRed = TRUE
    /\ indexExists = FALSE
    /\ invocation = 1

\* Lines 48-71: read the properties, build base_url, answer Delete.
Parse ==
    /\ pc = "start"
    /\ IF FirstMissing(event) # None
       THEN /\ pc' = "done"
            /\ result' = Raised(<<"KeyError", FirstMissing(event)>>)
            /\ UNCHANGED base_url
       ELSE /\ base_url' = BaseUrl(event.DomainEndpoint)
            /\ IF IsDelete(RequestTypeOf(event))
               THEN /\ pc' = "done"
                    /\ result' = Returned("Cleaned up role and mappings")
               ELSE /\ pc' = "poll"
                    /\ UNCHANGED result
    /\ UNCHANGED <<event, i, status_code, response, trace, lastOutcome, readyAt,
                   transportFailed, allRed, indexExists, invocation>>

\* Line 90: the attempt after which an exception is re-raised.
\* (IsFinalAttemptOffByOne: compared with max_retries, which i never reaches.)
IsFinalAttemptOffByOne(n) == n = max_retries
IsFinalAttempt(n) == n = max_retries - 1

\* Where the loop of line 78 goes after an iteration that did not break.
NextIteration(n) == IF n + 1 < max_retries THEN "poll" ELSE "role"

\* Lines 78-92: one iteration of the readiness loop.
HealthAttempt ==
    /\ pc = "poll"
    /\ i < max_retries
    /\ \E outcome \in HealthOutcomes :
         LET r == make_signed_request(outcome)
             called == Append(trace, Call("GET", HealthPath, ""))
             status == IF r.raised THEN None ELSE JsonLoads(r.response).status
         IN  /\ lastOutcome' = outcome
             /\ transportFailed' = (transportFailed \/ r.raised)
             /\ allRed' = (allRed /\ status = "red")
             /\ IF r.raised
                THEN \* lines 88-92, exception out of make_signed_request
                     /\ UNCHANGED <<status_code, response, readyAt>>
                     /\ IF IsFinalAttempt(i)
                        THEN /\ trace' = called
                             /\ pc' = "done"
                             /\ result' = Raised(<<"URLError">>)
                             /\ UNCHANGED i
                        ELSE /\ trace' = Append(called, Sleep(PollSleep))
                             /\ pc' = NextIteration(i)
                             /\ i' = i + 1
                             /\ UNCHANGED result
                ELSE /\ status_code' = r.status_code
                     /\ response' = r.response
                     /\ IF ParseRaises(r.status_code, r.response)
                        THEN \* lines 88-92, exception out of json.loads
                             /\ UNCHANGED readyAt
                             /\ IF IsFinalAttempt(i)
                                THEN /\ trace' = called
                                     /\ pc' = "done"
                                     /\ result' = Raised(<<"JSONDecodeError">>)
                                     /\ UNCHANGED i
                                ELSE /\ trace' = Append(called, Sleep(PollSleep))
                                     /\ pc' = NextIteration(i)
                                     /\ i' = i + 1
                                     /\ UNCHANGED result
                        ELSE IF ClusterReady(r.status_code, r.response)
                             THEN \* line 85, break
                                  /\ trace' = called
                                  /\ readyAt' = Len(called)
                                  /\ pc' = "role"
                                  /\ UNCHANGED <<i, result>>
                             ELSE \* lines 86-87
                                  /\ trace' = Append(called, Sleep(PollSleep))
                                  /\ pc' = NextIteration(i)
                                  /\ i' = i + 1
                                  /\ UNCHANGED <<readyAt, result>>
    /\ UNCHANGED <<event, base_url, indexExists, invocation>>

\* (PutRetrying: a PUT that is sent again after a transport failure.)
PutRetrying(at, path, payload, next) ==
    /\ pc = at
    /\ \E outcome \in PutOutcomes :
         LET r == make_signed_request(outcome)
         IN  /\ trace' = Append(trace, Call("PUT", path, payload))
             /\ lastOutcome' = outcome
             /\ transportFailed' = (transportFailed \/ r.raised)
             /\ IF r.raised
                THEN /\ Len(trace) < 70
                     /\ UNCHANGED <<pc, result, status_code, response>>
                ELSE /\ pc' = next
                     /\ status_code' = r.status_code
                     /\ response' = r.response
                     /\ UNCHANGED result
    /\ UNCHANGED <<event, base_url, i, readyAt, allRed, indexExists, invocation>>

\* A PUT outside the loop: an exception goes to line 246, a response of any
\* status is stored and the handler goes on to `next`.
Put(at, path, payload, next) ==
    /\ pc = at
    /\ \E outcome \in PutOutcomes :
         LET r == make_signed_request(outcome)
         IN  /\ trace' = Append(trace, Call("PUT", path, payload))
             /\ lastOutcome' = outcome
             /\ transportFailed' = (transportFailed \/ r.raised)
             /\ IF r.raised
                THEN /\ pc' = "done"
                     /\ result' = Raised(<<"URLError">>)
                     /\ UNCHANGED <<status_code, response>>
                ELSE /\ pc' = next
                     /\ status_code' = r.status_code
                     /\ response' = r.response
                     /\ UNCHANGED result
    /\ UNCHANGED <<event, base_url, i, readyAt, allRed, indexExists, invocation>>

\* (PutStrict: a PUT whose answer is checked, an HTTP error status raising.)
PutStrict(at, path, payload, next) ==
    /\ pc = at
    /\ \E outcome \in PutOutcomes :
         LET r == make_signed_request(outcome)
         IN  /\ trace' = Append(trace, Call("PUT", path, payload))
             /\ lastOutcome' = outcome
             /\ transportFailed' = (transportFailed \/ r.raised)
             /\ IF r.raised \/ r.status_code >= 300
                THEN /\ pc' = "done"
                     /\ result' = Raised(<<"Exception">>)
                     /\ UNCHANGED <<status_code, response>>
                ELSE /\ pc' = next
                     /\ status_code' = r.status_code
                     /\ response' = r.response
                     /\ UNCHANGED result
    /\ UNCHANGED <<event, base_url, i, readyAt, allRed, indexExists, invocation>>

\* Lines 130-136. (CreateRoleStrict: the role PUT failing on an error status.)
CreateRoleStrict == PutStrict("role", RolePath, bedrock_kb_role, "all_access")
CreateRole == Put("role", RolePath, bedrock_kb_role, "all_access")

\* Lines 144-164
MapAllAccess ==
    Put("all_access", AllAccessPath,
        RoleMapping(BackendRoles(event.KbRoleArn, event.AdminRoleArn)), "kb_only")

\* Lines 170-183. (MapKbOnlyStrict: the mapping PUT failing on an error status.)
MapKbOnlyStrict ==
    PutStrict("kb_only", KbOnlyPath,
              KbOnlyMapping(event.KbRoleArn, BackendRoles(event.KbRoleArn, event.AdminRoleArn)),
              "index")
MapKbOnly ==
    Put("kb_only", KbOnlyPath,
        KbOnlyMapping(event.KbRoleArn, BackendRoles(event.KbRoleArn, event.AdminRoleArn)),
        "index")

\* Lines 193-244: the propagation sleep, the index PUT and the result check.
CreateIndex ==
    /\ pc = "index"
    /\ \E outcome \in IndexOutcomes(indexExists) :
         LET r == make_signed_request(outcome)
         IN  /\ trace' = trace \o <<Sleep(PropagationSleep),
                                    Call("PUT", IndexPath(event.IndexName), index_config)>>
             /\ lastOutcome' = outcome
             /\ transportFailed' = (transportFailed \/ r.raised)
             /\ pc' = "done"
             /\ IF r.raised
                THEN /\ result' = Raised(<<"URLError">>)
                     /\ UNCHANGED <<status_code, response>>
                ELSE /\ status_code' = r.status_code
                     /\ response' = r.response
                     /\ result' = IF IndexCreated(r.status_code)
                                  THEN Returned("Index created successfully with IAM authentication")
                                  ELSE Raised(<<WrapPrefix, r.response>>)
             /\ indexExists' = (indexExists \/ outcome.code \in {200, 201})
    /\ UNCHANGED <<event, base_url, i, readyAt, allRed, invocation>>

Next ==
    \/ Parse
    \/ HealthAttempt
    \/ CreateRole
    \/ MapAllAccess
    \/ MapKbOnly
    \/ CreateIndex

Spec == Init /\ [][Next]_vars

\* The stack is deployed again after an invocation that created the index:
\* handler runs anew on the same event, against the same cluster.
Reinvoke ==
    /\ pc = "done"
    /\ invocation = 1
    /\ result.kind = "returned"
    /\ indexExists
    /\ invocation' = 2
    /\ pc' = "start"
    /\ base_url' = <<>>
    /\ i' = 0
    /\ status_code' = None
    /\ response' = None
    /\ result' = NoResult
    /\ trace' = <<>>
    /\ lastOutcome' = NoOutcome
    /\ readyAt' = 0
    /\ transportFailed' = FALSE
    /\ allRed' = TRUE
    /\ UNCHANGED <<event, indexExists>>

NextRerun == Next \/ Reinvoke

SpecRerun == Init /\ [][NextRerun]_vars

(* ----------------------- reading the trace ---------------------------- *)

IsCall(e) == e.kind = "call"
IsHealth(e) == IsCall(e) /\ e.method = "GET" /\ e.url.path = HealthPath
IsPut(e) == IsCall(e) /\ e.method = "PUT"
IsPutTo(e, path) == IsPut(e) /\ e.url.path = path
IsSleep(e, secs) == e.kind = "sleep" /\ e.secs = secs

CallsOf(t) == SelectSeq(t, IsCall)
HealthIdx(t) == {k \in 1..Len(t) : IsHealth(t[k])}
PutIdx(t) == {k \in 1..Len(t) : IsPut(t[k])}
CallIdx(t) == {k \in 1..Len(t) : IsCall(t[k])}
LastCall(t) == t[CHOOSE k \in CallIdx(t) : \A m \in CallIdx(t) : m <= k]

AllProps(ev) == ev.hasProps /\ ev.keys = RequiredKeySet
Finished == pc = "done"
Succeeded == result.kind = "returned" /\ result.statusCode = 200
Failed == result.kind = "raised"

\* The last request sent was a health check and it was answered (any HTTP status).
HealthAnswered ==
    /\ CallIdx(trace) # {}
    /\ IsHealth(LastCall(trace))
    /\ lastOutcome.kind \in {"ok", "httperror"}

\* The last request sent was the index PUT and it was answered.
IndexAnswered ==
    /\ CallIdx(trace) # {}
    /\ IsPutTo(LastCall(trace), <<"/", event.IndexName>>)
    /\ lastOutcome.kind \in {"ok", "httperror"}

(* ------------------------------ claims -------------------------------- *)

\* C1: when each of the 30 health attempts is answered with status "red", the
\* invocation fails and never sends the role, mapping or index PUT.
C1_RedBudgetIsFatal ==
    (allRed /\ Cardinality(HealthIdx(trace)) = 30)
        => /\ PutIdx(trace) = {}
           /\ pc \in {"poll", "done"}
           /\ (Finished => Failed)

C3_IndexStatusDecides ==
    IndexAnswered
        => /\ Finished
           /\ IF lastOutcome.code \in {200, 201}
              THEN Succeeded
              ELSE Failed /\ lastOutcome.body \in Range(result.msg)

C3_Witness ==
    /\ IndexAnswered
    /\ lastOutcome.code = 400
    /\ lastOutcome.body = "resource_already_exists_exception"
    /\ Failed

\* The calls of a finished run are n health checks (1 <= n <= 30) and then the
\* four PUTs, once each: role, all_access mapping, bedrock_kb_role mapping, index.
FixedOrder(c) ==
    LET n == Len(c) - 4
    IN  /\ n \in 1..30
        /\ \A k \in 1..n : IsHealth(c[k])
        /\ IsPutTo(c[n + 1], <<"/_plugins/_security/api/roles/bedrock_kb_role">>)
        /\ IsPutTo(c[n + 2], <<"/_plugins/_security/api/rolesmapping/all_access">>)
        /\ IsPutTo(c[n + 3], <<"/_plugins/_security/api/rolesmapping/bedrock_kb_role">>)
        /\ IsPutTo(c[n + 4], <<"/", event.IndexName>>)

\* The first health check ended the polling (readyAt = 1): five calls in all,
\* and success when the index PUT is answered 200 or 201.
FiveCalls ==
    readyAt = 1
        => /\ Len(CallsOf(trace)) = 5
           /\ (IndexAnswered /\ lastOutcome.code \in {200, 201}) => Succeeded

\* The 30th health attempt was answered 200 with a body that is no JSON document.
LastAttemptUnparseable ==
    /\ HealthAnswered
    /\ lastOutcome.code = 200
    /\ lastOutcome.body = "<html>"

LastCallIdx(t) == CHOOSE k \in CallIdx(t) : \A m \in CallIdx(t) : m <= k

GreenYellowBodies == {"{\"status\":\"green\"}", "{\"status\":\"yellow\"}"}

\* Once a health check has ended the polling, no health check follows it and
\* the next call is the role PUT.
NothingButRoleAfterReady ==
    readyAt > 0
        => /\ IsHealth(trace[readyAt])
           /\ \A k \in HealthIdx(trace) : k <= readyAt
           /\ pc # "poll"
           /\ \A k \in CallIdx(trace) :
                  (k > readyAt /\ \A m \in CallIdx(trace) : m > readyAt => k <= m)
                      => IsPutTo(trace[k], <<"/_plugins/_security/api/roles/bedrock_kb_role">>)

\* An answer with status "red" is never the one that ends the polling as ready.
RedNeverReady ==
    (HealthAnswered /\ lastOutcome.body = "{\"status\":\"red\"}")
        => readyAt # LastCallIdx(trace)

\* C5 as stated: polling stops at the first health answer whose status is
\* green or yellow (whatever its HTTP status), the role PUT comes next, and
\* "red" never ends polling as ready.
C5_StopsAtGreenYellowOriginal ==
    /\ (HealthAnswered /\ lastOutcome.body \in GreenYellowBodies)
           => (readyAt = LastCallIdx(trace) /\ pc = "role")
    /\ NothingButRoleAfterReady
    /\ RedNeverReady

\* C5 (amended): polling stops at the first health answer with HTTP status 200
\* whose status is green or yellow; no health check follows it and the role PUT
\* comes next; "red" never ends polling as ready.
C5_StopsAtGreenYellow ==
    /\ (HealthAnswered /\ lastOutcome.code = 200 /\ lastOutcome.body \in GreenYellowBodies)
           => (readyAt = LastCallIdx(trace) /\ pc = "role")
    /\ NothingButRoleAfterReady
    /\ RedNeverReady

C5_Witness ==
    /\ readyAt = 3
    /\ response = "{\"status\":\"yellow\"}"
    /\ pc = "role"

\* C6: at most 30 health checks are sent, and any two consecutive ones have
\* exactly one sleep of 10 between them, nothing else.
C6_PollBudget ==
    LET h == HealthIdx(trace)
    IN  /\ Cardinality(h) <= 30
        /\ \A j \in h :
               (\E k \in h : k > j)
                   => /\ IsSleep(trace[j + 1], 10)
                      /\ IsHealth(trace[j + 2])

C6_Witness ==
    /\ Cardinality(HealthIdx(trace)) = 30
    /\ transportFailed
    /\ pc = "role"

AllAccessIdx(t) ==
    {k \in 1..Len(t) : IsPutTo(t[k], <<"/_plugins/_security/api/rolesmapping/all_access">>)}
KbOnlyIdx(t) ==
    {k \in 1..Len(t) : IsPutTo(t[k], <<"/_plugins/_security/api/rolesmapping/bedrock_kb_role">>)}

NoDuplicates(roles) == \A a, b \in 1..Len(roles) : roles[a] = roles[b] => a = b

\* The identity list of the all_access mapping holds KbRoleArn, holds
\* AdminRoleArn exactly when `supplied` and different from KbRoleArn, and holds
\* nothing else and nothing twice.
BroadListIs(roles, supplied) ==
    /\ event.KbRoleArn \in Range(roles)
    /\ (event.AdminRoleArn # event.KbRoleArn)
           => ((event.AdminRoleArn \in Range(roles)) <=> supplied)
    /\ Range(roles) \subseteq {event.KbRoleArn, event.AdminRoleArn}
    /\ NoDuplicates(roles)

\* C7 as stated: AdminRoleArn is in the all_access list iff the event has an
\* AdminRoleArn (of any value) that differs from KbRoleArn.
C7_BroadMappingOriginal ==
    \A k \in AllAccessIdx(trace) :
        BroadListIs(trace[k].payload.backend_roles, event.AdminRoleArn # None)

\* C7 (amended): AdminRoleArn is in the all_access list iff the event has a
\* non-empty AdminRoleArn that differs from KbRoleArn; KbRoleArn is always in
\* it; nothing else is, and nothing twice.
C7_BroadMapping ==
    \A k \in AllAccessIdx(trace) :
        BroadListIs(trace[k].payload.backend_roles,
                    event.AdminRoleArn # None /\ event.AdminRoleArn # "")

C7_Witness ==
    /\ AllAccessIdx(trace) # {}
    /\ event.AdminRoleArn = "arn:aws:iam::1:role/admin"
    /\ \A k \in AllAccessIdx(trace) :
           trace[k].payload.backend_roles
               = <<"arn:aws:iam::1:role/kb", "arn:aws:iam::1:role/admin">>

\* C8: the identity list of the bedrock_kb_role mapping is exactly <<KbRoleArn>>;
\* an AdminRoleArn that differs from KbRoleArn is never in it.
C8_NarrowMapping ==
    \A k \in KbOnlyIdx(trace) :
        /\ trace[k].payload.backend_roles = <<event.KbRoleArn>>
        /\ (event.AdminRoleArn # event.KbRoleArn)
               => event.AdminRoleArn \notin Range(trace[k].payload.backend_roles)

C8_Witness ==
    /\ KbOnlyIdx(trace) # {}
    /\ AllAccessIdx(trace) # {}
    /\ event.AdminRoleArn = "arn:aws:iam::1:role/admin"
    /\ \A k \in AllAccessIdx(trace) :
           event.AdminRoleArn \in Range(trace[k].payload.backend_roles)

HasSchemePrefix(d) ==
    \/ (Len(d) >= 8 /\ SubSeq(d, 1, 8) = <<"h", "t", "t", "p", "s", ":", "/", "/">>)
    \/ (Len(d) >= 7 /\ SubSeq(d, 1, 7) = <<"h", "t", "t", "p", ":", "/", "/">>)

\* C9: for a DomainEndpoint that begins with https:// or http:// (also with
\* repeated or nested prefixes) base_url is https:// followed by something
\* that does not begin with a scheme prefix.
C9_OneScheme ==
    (base_url # <<>> /\ HasSchemePrefix(event.DomainEndpoint))
        => /\ Len(base_url) >= 8
           /\ SubSeq(base_url, 1, 8) = <<"h", "t", "t", "p", "s", ":", "/", "/">>
           /\ ~HasSchemePrefix(SubSeq(base_url, 9, Len(base_url)))

\* C10: an event that lacks ResourceProperties or one of DomainEndpoint,
\* IndexName, Region, KbRoleArn fails at once: handler raises and sends nothing,
\* whatever the RequestType.
C10_MissingFieldFailsFast ==
    ~AllProps(event)
        => /\ trace = <<>>
           /\ pc \in {"start", "done"}
           /\ (Finished => Failed)

C10_Witness ==
    /\ event.hasProps
    /\ event.keys = {"DomainEndpoint", "IndexName", "Region"}
    /\ event.RequestType = "Delete"
    /\ Finished
    /\ Failed

\* C11: an invocation ends either by returning a result with statusCode 200 or
\* by raising an error whose message begins "Failed to create index: "; no
\* result has another statusCode and no error leaves handler unwrapped.
C11_TwoOutcomes ==
    /\ result.kind \in {"none", "returned", "raised"}
    /\ Finished <=> result.kind # "none"
    /\ result.kind = "returned" => result.statusCode = 200
    /\ result.kind = "raised"
           => (Len(result.msg) >= 2 /\ result.msg[1] = "Failed to create index: ")

C11_Witness ==
    /\ Finished
    /\ result.msg = <<"Failed to create index: ", "KeyError", "ResourceProperties">>

\* C12: in a re-invocation on the same event after the index was created, the
\* role PUT and both mapping PUTs are sent again, and once the index PUT is
\* answered (not 200/201, the index exists) the invocation raises; it never
\* returns success.
C12_RerunFails ==
    invocation = 2
        => /\ ~Succeeded
           /\ IndexAnswered
                  => /\ lastOutcome.code \notin {200, 201}
                     /\ Failed
                     /\ \E a, b, c \in PutIdx(trace) :
                            /\ a < b /\ b < c
                            /\ IsPutTo(trace[a], <<"/_plugins/_security/api/roles/bedrock_kb_role">>)
                            /\ IsPutTo(trace[b], <<"/_plugins/_security/api/rolesmapping/all_access">>)
                            /\ IsPutTo(trace[c], <<"/_plugins/_security/api/rolesmapping/bedrock_kb_role">>)

C12_Witness ==
    /\ invocation = 2
    /\ event.RequestType = "Create"
    /\ IndexAnswered
    /\ lastOutcome.body = "resource_already_exists_exception"
    /\ Failed

\* The last request sent was a health check and the attempt raised: no answer
\* at all, or an answer 200 whose body json.loads rejects.
HealthErrored ==
    /\ CallIdx(trace) # {}
    /\ IsHealth(LastCall(trace))
    /\ \/ lastOutcome.kind = "urlerror"
       \/ (lastOutcome.code = 200 /\ lastOutcome.body = "<html>")

\* C13: a health attempt that raises is followed, when it is not the 30th, by
\* one sleep of 10 and another attempt; when it is the 30th the error leaves the
\* loop and the invocation fails with no role, mapping or index PUT sent.
C13_PollErrors ==
    HealthErrored
        => IF Cardinality(HealthIdx(trace)) < 30
           THEN /\ pc = "poll"
                /\ i < 30
                /\ ENABLED HealthAttempt
                /\ IsSleep(trace[Len(trace)], 10)
                /\ IsHealth(trace[Len(trace) - 1])
                /\ result.kind = "none"
           ELSE /\ Finished
                /\ Failed
                /\ IsHealth(trace[Len(trace)])
                /\ PutIdx(trace) = {}

C13_Witness ==
    /\ HealthErrored
    /\ lastOutcome.kind = "urlerror"
    /\ Cardinality(HealthIdx(trace)) = 30
    /\ Finished
    /\ Failed

\* The last request sent was the PUT to `path` and it was answered.
PutAnswered(path) ==
    /\ CallIdx(trace) # {}
    /\ IsPutTo(LastCall(trace), path)
    /\ lastOutcome.kind \in {"ok", "httperror"}

\* C14: whatever HTTP status answers the role PUT, the invocation does not
\* fail there: the handler stands before the all_access mapping PUT, and the
\* call that follows the role PUT is that PUT.
C14_RoleStatusIgnored ==
    /\ PutAnswered(<<"/_plugins/_security/api/roles/bedrock_kb_role">>)
           => (pc = "all_access" /\ result.kind = "none" /\ ENABLED MapAllAccess)
    /\ \A k \in PutIdx(trace) :
           (/\ IsPutTo(trace[k], <<"/_plugins/_security/api/roles/bedrock_kb_role">>)
            /\ k < Len(trace))
               => IsPutTo(trace[k + 1], <<"/_plugins/_security/api/rolesmapping/all_access">>)

C14_Witness ==
    /\ PutAnswered(<<"/_plugins/_security/api/roles/bedrock_kb_role">>)
    /\ lastOutcome.kind = "httperror"
    /\ status_code = 400
    /\ pc = "all_access"

FourPutPaths ==
    {<<"/_plugins/_security/api/roles/bedrock_kb_role">>,
     <<"/_plugins/_security/api/rolesmapping/all_access">>,
     <<"/_plugins/_security/api/rolesmapping/bedrock_kb_role">>,
     <<"/", event.IndexName>>}

\* Each of the four PUTs is in the trace at most once, every call is one of the
\* five known ones (no DELETE, no other method or URL), and a PUT that got no
\* HTTP response is the last thing the invocation did: it has raised.
NoRetryNoRollback ==
    /\ \A path \in FourPutPaths :
           Cardinality({k \in PutIdx(trace) : trace[k].url.path = path}) <= 1
    /\ \A k \in CallIdx(trace) :
           \/ IsHealth(trace[k])
           \/ (IsPut(trace[k]) /\ trace[k].url.path \in FourPutPaths)
    /\ (PutIdx(trace) # {} /\ lastOutcome.kind = "urlerror")
           => /\ Finished
              /\ Failed
              /\ IsPut(trace[Len(trace)])

\* C15: outside the polling there is no retry and no rollback: each PUT is sent
\* at most once, a transport failure of a PUT raises at once, and after the
\* invocation has ended nothing more is sent.
C15_NoRetryOutsidePolling ==
    /\ []NoRetryNoRollback
    /\ [][Finished => trace' = trace]_vars

C15_Witness ==
    /\ Finished
    /\ Failed
    /\ lastOutcome.kind = "urlerror"
    /\ Cardinality(PutIdx(trace)) = 2

IndexIdx(t) == {k \in 1..Len(t) : IsPutTo(t[k], <<"/", event.IndexName>>)}

\* C16: when the index PUT is sent, the all_access PUT, the bedrock_kb_role
\* mapping PUT and one sleep of 30 come right before it, in that order: the
\* wait lies between the return of the narrow mapping PUT and the index PUT.
C16_WaitBeforeIndex ==
    \A k \in IndexIdx(trace) :
        /\ k >= 4
        /\ IsSleep(trace[k - 1], 30)
        /\ IsPutTo(trace[k - 2], <<"/_plugins/_security/api/rolesmapping/bedrock_kb_role">>)
        /\ IsPutTo(trace[k - 3], <<"/_plugins/_security/api/rolesmapping/all_access">>)
        /\ \A m \in 1..Len(trace) : IsSleep(trace[m], 30) => m = k - 1

C16_Witness ==
    /\ IndexIdx(trace) # {}
    /\ Finished
    /\ Succeeded
    /\ Cardinality(HealthIdx(trace)) = 2

\* What the handler sees of the last request: an answer of any HTTP status as
\* the values (status_code, response), no answer as an exception.
AnswerIsValue ==
    /\ lastOutcome.kind \in {"ok", "httperror"}
           => (response = lastOutcome.body /\ status_code = lastOutcome.code)
    /\ lastOutcome.kind = "urlerror"
           => \/ (Finished /\ result.msg = <<"Failed to create index: ", "URLError">>)
              \/ (pc = "poll" /\ IsHealth(LastCall(trace)) /\ IsSleep(trace[Len(trace)], 10))

\* A step of the handler past the parsing sends exactly one request.
OneMoreCall ==
    pc \in {"poll", "role", "all_access", "kb_only", "index"}
        => (Len(CallsOf(trace')) = Len(CallsOf(trace)) + 1)

RECURSIVE Waited(_)
Waited(t) == IF t = <<>> THEN 0 ELSE t[1].secs + Waited(Tail(t))

\* At most 34 calls (30 of them health checks) and 330 units of sleep, and a
\* handler that has not ended can take its next step.
WithinBudget ==
    /\ Len(CallsOf(trace)) <= 34
    /\ Cardinality(HealthIdx(trace)) <= 30
    /\ Waited(trace) <= 330
    /\ Finished \/ ENABLED Next

Progress == (Len(CallsOf(trace')) > Len(CallsOf(trace))) \/ pc = "start"

\* C18: every invocation ends (returns or raises) after at most 34 calls and
\* 330 units of waiting: it stays within the budget and each step it takes
\* before it ends sends a call or ends it.
C18_Terminates ==
    /\ []WithinBudget
    /\ [][Progress]_vars

C18_Witness ==
    /\ Finished
    /\ Len(CallsOf(trace)) = 34
    /\ Waited(trace) = 330

\* C19: the statuses answered to the role PUT and the two mapping PUTs change
\* nothing: after each the handler stands before the next PUT, up to the index
\* PUT, and once that is answered its status alone decides between the success
\* result and the raise.
C19_MappingStatusIgnored ==
    /\ PutAnswered(<<"/_plugins/_security/api/roles/bedrock_kb_role">>)
           => (pc = "all_access" /\ result.kind = "none")
    /\ PutAnswered(<<"/_plugins/_security/api/rolesmapping/all_access">>)
           => (pc = "kb_only" /\ result.kind = "none" /\ ENABLED MapKbOnly)
    /\ PutAnswered(<<"/_plugins/_security/api/rolesmapping/bedrock_kb_role">>)
           => (pc = "index" /\ result.kind = "none" /\ ENABLED CreateIndex)
    /\ IndexAnswered
           => /\ Succeeded <=> lastOutcome.code \in {200, 201}
              /\ Failed <=> lastOutcome.code \notin {200, 201}

C19_Witness ==
    /\ PutAnswered(<<"/_plugins/_security/api/rolesmapping/bedrock_kb_role">>)
    /\ lastOutcome.code = 400
    /\ pc = "index"
    /\ ENABLED CreateIndex

====
